---- MODULE Spec2Model ----
(***************************************************************************)
(* State-machine model of src/server.js: the room map, the presence lists, *)
(* the per-connection session state, the timers scheduled by the           *)
(* disconnect handler, the periodic room cleanup and the speech-data       *)
(* handler with its retrying translateText call.                           *)
(*                                                                         *)
(* One action is one callback of the Node event loop: a socket event       *)
(* handler, an HTTP handler, a timer callback, or the continuation that    *)
(* runs when the awaited remote translation call settles.  Callbacks run   *)
(* to completion, so each is one atomic step.                              *)
(***************************************************************************)
EXTENDS Integers, Sequences, FiniteSets, TLC

\* ------------------------------------------------------------ bounds
\* Spec, the whole server: connections ever opened, create-room requests ever
\* served, speech-data messages ever received, and the time horizon counted in
\* periods of the cleanup interval.
MaxConns == 2
MaxRooms == 1
MaxMsgs == 1
MaxSweeps == 1
\* SpecLobby, rooms and presence: create-room requests ever served.
LobbyRooms == 2
\* SpecCrowd, one room and many members: connections ever opened.
CrowdConns == 4
\* SpecTalk, the speech path: speech-data messages ever received.
TalkMsgs == 2
\* SpecSweep, the cleanup interval: the time horizon in periods of the interval.
Sweeps == 3

\* Inputs are drawn from these sets.
Codes == {"100000", "100001"}
SomeNames == <<"asha", "ben">>
ManyNames == <<"asha", "ben", "chen", "dev">>
Names == {ManyNames[i] : i \in 1..Len(ManyNames)}
Texts == {"Hello"}
Directions == {"en-to-hi", "hi-to-en"}
Errors == {"quota", "timeout"}

\* ------------------------------------------------- program constants
maxRetries == 3
BackoffBase == 1000
ShortGrace == 20000
LongGrace == 300000
IdleThreshold == 3600000
JanitorPeriod == 1800000

\* Socket ids are handed out in order; a run opens as many as its bound allows.
Conns == 1..(IF MaxConns > CrowdConns THEN MaxConns ELSE CrowdConns)
NoRoom == "null"

VARIABLES
    now,          \* the clock (ms since the process started)
    status,       \* socket id -> "none" | "live" | "gone"
    currentRoom,  \* socket id -> the handler closure's currentRoom
    subs,         \* room code -> socket ids in that socket.io broadcast group
    heap,         \* the room objects ever created, in creation order
    rooms,        \* the rooms Map: room code -> index into heap, 0 when absent
    departures,   \* pending 20 s departure checks, in scheduling order
    longTimers,   \* pending 5 min empty-room timers, in scheduling order
    janitorDue,   \* when the cleanup interval fires next
    msgs,         \* the speech-data handler invocations, in arrival order
    delivered,    \* indices of msgs in the order they were broadcast
    leftCount,    \* socket id -> number of user-left events naming it
    rejoined,     \* socket ids with a pending departure check whose name has
                  \* since joined the same room object on another socket
    joinedAs,     \* live socket id -> room object and name of its latest join,
                  \* until another socket joins that room under that name
    emitted       \* the events sent by the latest step

vars == <<now, status, currentRoom, subs, heap, rooms, departures, longTimers,
          janitorDue, msgs, delivered, leftCount, rejoined, joinedAs, emitted>>

\* ------------------------------------------------------------ helpers
\* A callback of findIndex or some is given as the set of the entries it accepts.
entries(users) == {users[i] : i \in 1..Len(users)}

RECURSIVE findIndexFrom(_, _, _)
findIndexFrom(users, accepted, i) ==
    IF i > Len(users) THEN -1
    ELSE IF users[i] \in accepted THEN i - 1
    ELSE findIndexFrom(users, accepted, i + 1)

\* Array.prototype.findIndex: the 0-based index of the first match, or -1.
findIndex(users, accepted) == findIndexFrom(users, accepted, 1)

\* Array.prototype.some.
some(users, accepted) == \E i \in 1..Len(users) : users[i] \in accepted

\* Array.prototype.splice(start, 1) for start >= 0: removes the element at
\* the 0-based position start when there is one, else removes nothing.
splice(users, start) ==
    IF start >= Len(users) THEN users
    ELSE SubSeq(users, 1, start) \o SubSeq(users, start + 2, Len(users))

\* The room object the Map holds for a code; only used when rooms[code] # 0.
RoomOf(code) == heap[rooms[code]]

\* GET /api/check-room/:roomCode
checkRoom(code) == [exists |-> rooms[code] # 0]

Min(S) == CHOOSE x \in S : \A y \in S : x <= y

\* ------------------------------------------------------------ initial state
\* The process has started: no room, no connection, the cleanup interval armed.
Init ==
    /\ now = 0
    /\ status = [s \in Conns |-> "none"]
    /\ currentRoom = [s \in Conns |-> NoRoom]
    /\ subs = [c \in Codes |-> {}]
    /\ heap = <<>>
    /\ rooms = [c \in Codes |-> 0]
    /\ departures = <<>>
    /\ longTimers = <<>>
    /\ janitorDue = JanitorPeriod
    /\ msgs = <<>>
    /\ delivered = <<>>
    /\ leftCount = [s \in Conns |-> 0]
    /\ rejoined = {}
    /\ joinedAs = [s \in Conns |-> [room |-> 0, name |-> ""]]
    /\ emitted = <<>>

\* ------------------------------------------------------------ HTTP handlers
\* POST /api/create-room.  generateRoomCode draws the code at random and the
\* handler does not look for an existing room: rooms.set replaces whatever the
\* code mapped to.  createdAt is written here and never read; it is left out.
\* emptySince is not a field of the program's room object: it records since
\* when the users list has been empty without a break, -1 while it is not
\* empty, and no action reads it.
CreateRoom(code, direction) ==
    /\ heap' = Append(heap, [translationDirection |-> direction,
                             users |-> <<>>,
                             lastActivity |-> now,
                             emptySince |-> now])
    /\ rooms' = [rooms EXCEPT ![code] = Len(heap) + 1]
    /\ emitted' = <<[type |-> "create-room-response", to |-> {}, roomCode |-> code]>>
    /\ UNCHANGED <<now, status, currentRoom, subs, departures, longTimers,
                   janitorDue, msgs, delivered, leftCount, rejoined, joinedAs>>

\* GET /api/check-room/:roomCode as a request: the response is the only effect.
CheckRoom(code) ==
    /\ emitted' = <<[type |-> "check-room-response", to |-> {},
                     exists |-> checkRoom(code).exists]>>
    /\ UNCHANGED <<now, status, currentRoom, subs, heap, rooms, departures,
                   longTimers, janitorDue, msgs, delivered, leftCount, rejoined, joinedAs>>

\* ------------------------------------------------------------ socket handlers
\* io.on('connection'): a new socket with a fresh id and currentRoom = null.
Connect ==
    \E s \in Conns :
        /\ status[s] = "none"
        /\ \A t \in Conns : t < s => status[t] # "none"
        /\ status' = [status EXCEPT ![s] = "live"]
        /\ emitted' = <<>>
        /\ UNCHANGED <<now, currentRoom, subs, heap, rooms, departures, longTimers,
                       janitorDue, msgs, delivered, leftCount, rejoined, joinedAs>>

\* A join that pushes a new entry whether or not the name has one.
joinUsersAlwaysPush(users, sock, userName) ==
    Append(users, [id |-> sock, name |-> userName])

\* join-room, lines 132-141: a user of that name keeps its entry and gets the
\* joining socket's id, otherwise a new entry is pushed.
joinUsers(users, sock, userName) ==
    LET existingUserIndex == findIndex(users, {user \in entries(users) : user.name = userName})
    IN  IF existingUserIndex # -1
        THEN [users EXCEPT ![existingUserIndex + 1].id = sock]
        ELSE Append(users, [id |-> sock, name |-> userName])

\* A refusal that comes after socket.join and the currentRoom assignment.
refuseJoinLate(s, roomCode) ==
    /\ emitted' = <<[type |-> "error", to |-> {s}, message |-> "Room not found"]>>
    /\ subs' = [subs EXCEPT ![roomCode] = @ \cup {s}]
    /\ currentRoom' = [currentRoom EXCEPT ![s] = roomCode]
    /\ UNCHANGED <<heap, rejoined, joinedAs>>

\* join-room, lines 123-126: no room of that code.
refuseJoin(s, roomCode) ==
    /\ emitted' = <<[type |-> "error", to |-> {s}, message |-> "Room not found"]>>
    /\ UNCHANGED <<subs, currentRoom, heap, rejoined, joinedAs>>

\* socket.on('join-room')
JoinRoom(s, roomCode, userName) ==
    /\ status[s] = "live"
    /\ IF rooms[roomCode] = 0
       THEN refuseJoin(s, roomCode)
       ELSE LET r == rooms[roomCode]
                users == joinUsers(heap[r].users, s, userName)
                group == subs[roomCode] \cup {s}
            IN  /\ subs' = [subs EXCEPT ![roomCode] = group]
                /\ currentRoom' = [currentRoom EXCEPT ![s] = roomCode]
                /\ heap' = [heap EXCEPT ![r].users = users,
                                        ![r].lastActivity = now,
                                        ![r].emptySince = -1]
                /\ emitted' =
                       <<[type |-> "room-joined", to |-> {s},
                          roomCode |-> roomCode,
                          translationDirection |-> heap[r].translationDirection,
                          users |-> users],
                         [type |-> "user-joined", to |-> group,
                          userId |-> s, userName |-> userName, users |-> users]>>
                /\ rejoined' = rejoined \cup
                       {departures[i].sock : i \in
                           {j \in 1..Len(departures) :
                               /\ departures[j].room = r
                               /\ departures[j].userName = userName
                               /\ departures[j].sock # s}}
                /\ joinedAs' =
                       [t \in Conns |->
                           IF t = s THEN [room |-> r, name |-> userName]
                           ELSE IF joinedAs[t] = [room |-> r, name |-> userName]
                                THEN [room |-> 0, name |-> ""]
                                ELSE joinedAs[t]]
    /\ UNCHANGED <<now, status, rooms, departures, longTimers, janitorDue,
                   msgs, delivered, leftCount>>

\* A heartbeat that only a socket with an entry in the room may send.
HeartbeatMembersOnly(s, roomCode) ==
    /\ status[s] = "live"
    /\ IF rooms[roomCode] # 0 /\ \E i \in 1..Len(RoomOf(roomCode).users) :
                                     RoomOf(roomCode).users[i].id = s
       THEN /\ heap' = [heap EXCEPT ![rooms[roomCode]].lastActivity = now]
            /\ emitted' = <<[type |-> "heartbeat-ack", to |-> {s}]>>
       ELSE /\ emitted' = <<>>
            /\ UNCHANGED heap
    /\ UNCHANGED <<now, status, currentRoom, subs, rooms, departures, longTimers,
                   janitorDue, msgs, delivered, leftCount, rejoined, joinedAs>>

\* socket.on('heartbeat')
Heartbeat(s, roomCode) ==
    /\ status[s] = "live"
    /\ IF rooms[roomCode] # 0
       THEN /\ heap' = [heap EXCEPT ![rooms[roomCode]].lastActivity = now]
            /\ emitted' = <<[type |-> "heartbeat-ack", to |-> {s}]>>
       ELSE /\ emitted' = <<>>
            /\ UNCHANGED heap
    /\ UNCHANGED <<now, status, currentRoom, subs, rooms, departures, longTimers,
                   janitorDue, msgs, delivered, leftCount, rejoined, joinedAs>>

\* A lookup that falls back on the last entry of the list when no id matches.
userIndexOrLast(s) ==
    LET cr == currentRoom[s]
    IN  IF cr # NoRoom /\ rooms[cr] # 0
        THEN LET found == findIndex(RoomOf(cr).users,
                                    {user \in entries(RoomOf(cr).users) : user.id = s})
             IN  IF found # -1 THEN found ELSE Len(RoomOf(cr).users) - 1
        ELSE -1

\* Lines 225-229: the position of the socket's entry in the room its
\* currentRoom names; -1 stands for every way of not getting one (no current
\* room, no room of that code, no entry of that id).
userIndex(s) ==
    LET cr == currentRoom[s]
    IN  IF cr # NoRoom /\ rooms[cr] # 0
        THEN findIndex(RoomOf(cr).users,
                       {user \in entries(RoomOf(cr).users) : user.id = s})
        ELSE -1

\* socket.on('disconnect'), lines 221-269, up to the setTimeout: the entry is
\* looked up by socket id in the room the closure's currentRoom names, and the
\* departure check is scheduled with the room object, the index found and the
\* entry (of which only the name, which never changes, is read later).
\* socket.io has taken the socket out of every broadcast group by then.
Disconnect(s) ==
    /\ status[s] = "live"
    /\ status' = [status EXCEPT ![s] = "gone"]
    /\ subs' = [c \in Codes |-> subs[c] \ {s}]
    /\ LET cr == currentRoom[s]
       IN  departures' =
              IF userIndex(s) # -1
              THEN Append(departures,
                          [sock |-> s, room |-> rooms[cr], userIndex |-> userIndex(s),
                           userName |-> RoomOf(cr).users[userIndex(s) + 1].name,
                           due |-> now + ShortGrace])
              ELSE departures
    /\ joinedAs' = [joinedAs EXCEPT ![s] = [room |-> 0, name |-> ""]]
    /\ emitted' = <<>>
    /\ UNCHANGED <<now, currentRoom, heap, rooms, longTimers, janitorDue, msgs,
                   delivered, leftCount, rejoined>>

\* ------------------------------------------------------------ timers
\* Lines 238-240: has a user of that name another socket id by now?
reconnected(users, userName, sock) ==
    some(users, {u \in entries(users) : u.name = userName /\ u.id # sock})

\* The departure check, lines 236-265 (the setTimeout callback).  Timers of one
\* delay fire in the order they were set, so the oldest pending check is next.
\* The callback reads the room object and the index captured at the disconnect.
DepartureCheck ==
    /\ departures # <<>>
    /\ Head(departures).due <= now
    /\ LET d == Head(departures)
           cr == currentRoom[d.sock]
           users == splice(heap[d.room].users, d.userIndex)
       IN  IF reconnected(heap[d.room].users, d.userName, d.sock)
           THEN /\ emitted' = <<>>
                /\ UNCHANGED <<heap, longTimers, leftCount>>
           ELSE /\ heap' = [heap EXCEPT
                               ![d.room].users = users,
                               ![d.room].emptySince =
                                   IF Len(users) = 0 /\ @ = -1 THEN now ELSE @]
                /\ emitted' = <<[type |-> "user-left", to |-> subs[cr],
                                 userId |-> d.sock, userName |-> d.userName,
                                 users |-> users]>>
                /\ leftCount' = [leftCount EXCEPT ![d.sock] = @ + 1]
                /\ longTimers' =
                       IF Len(users) = 0
                       THEN Append(longTimers, [sock |-> d.sock, room |-> d.room,
                                                due |-> now + LongGrace])
                       ELSE longTimers
    /\ departures' = Tail(departures)
    /\ rejoined' = rejoined \ {Head(departures).sock}
    /\ UNCHANGED <<now, status, currentRoom, subs, rooms, janitorDue, msgs, delivered,
                   joinedAs>>

\* An empty-room timer that fires and leaves the Map as it is.
LongGraceTimerKeepsRoom ==
    /\ longTimers # <<>>
    /\ Head(longTimers).due <= now
    /\ longTimers' = Tail(longTimers)
    /\ emitted' = <<>>
    /\ UNCHANGED <<now, status, currentRoom, subs, heap, rooms, departures,
                   janitorDue, msgs, delivered, leftCount, rejoined, joinedAs>>

\* An empty-room timer that deletes the room without looking at its users.
LongGraceTimerUnchecked ==
    /\ longTimers # <<>>
    /\ Head(longTimers).due <= now
    /\ rooms' = [rooms EXCEPT ![currentRoom[Head(longTimers).sock]] = 0]
    /\ longTimers' = Tail(longTimers)
    /\ emitted' = <<>>
    /\ UNCHANGED <<now, status, currentRoom, subs, heap, departures, janitorDue,
                   msgs, delivered, leftCount, rejoined, joinedAs>>

\* The empty-room timer, lines 257-262: it looks the code up in the Map again.
\* (The timer's room field records the object that emptied; the callback does
\* not read it.)
LongGraceTimer ==
    /\ longTimers # <<>>
    /\ Head(longTimers).due <= now
    /\ LET cr == currentRoom[Head(longTimers).sock]
       IN  rooms' = IF rooms[cr] # 0 /\ Len(RoomOf(cr).users) = 0
                    THEN [rooms EXCEPT ![cr] = 0]
                    ELSE rooms
    /\ longTimers' = Tail(longTimers)
    /\ emitted' = <<>>
    /\ UNCHANGED <<now, status, currentRoom, subs, heap, departures, janitorDue,
                   msgs, delivered, leftCount, rejoined, joinedAs>>

\* A test that also takes a room idle for exactly the threshold.
expiredAtThreshold(room, t) ==
    t - room.lastActivity >= IdleThreshold /\ Len(room.users) = 0

\* Line 279: the cleanup's test on one room.
expired(room, t) == t - room.lastActivity > IdleThreshold /\ Len(room.users) = 0

\* The cleanup interval, lines 273-284.
Janitor ==
    /\ janitorDue <= now
    /\ rooms' = [c \in Codes |->
                    IF rooms[c] # 0 /\ expired(RoomOf(c), now) THEN 0 ELSE rooms[c]]
    /\ janitorDue' = janitorDue + JanitorPeriod
    /\ emitted' = <<>>
    /\ UNCHANGED <<now, status, currentRoom, subs, heap, departures, longTimers,
                   msgs, delivered, leftCount, rejoined, joinedAs>>

\* ------------------------------------------------------------ translation
\* The language pair taken the other way round.
languagesSwapped(translationDirection) ==
    IF translationDirection = "en-to-hi"
    THEN [fromLang |-> "Hindi", toLang |-> "English"]
    ELSE [fromLang |-> "English", toLang |-> "Hindi"]

\* Lines 189-196.
languages(translationDirection) ==
    IF translationDirection = "en-to-hi"
    THEN [fromLang |-> "English", toLang |-> "Hindi"]
    ELSE [fromLang |-> "Hindi", toLang |-> "English"]

\* Texts are sequences of tokens.  The remote model answers a prompt with the
\* translation of the text for the language pair of the prompt, with or without
\* white space around it.
Blank == {" ", "\n"}
Translation(text, fromLang, toLang) == <<fromLang, "->", toLang, ":", text>>
Responses(text, fromLang, toLang) ==
    {Translation(text, fromLang, toLang),
     <<" ">> \o Translation(text, fromLang, toLang) \o <<"\n">>}

\* String.prototype.trim
RECURSIVE trimStart(_)
trimStart(t) == IF t # <<>> /\ Head(t) \in Blank THEN trimStart(Tail(t)) ELSE t
RECURSIVE trimEnd(_)
trimEnd(t) ==
    IF t # <<>> /\ t[Len(t)] \in Blank THEN trimEnd(SubSeq(t, 1, Len(t) - 1)) ELSE t
trim(t) == trimEnd(trimStart(t))

\* Line 78.
unavailable(message) == <<"[Translation unavailable: ", message, "]">>

\* Lines 204-208: socket.to(roomCode).emit, everyone in the group but the sender.
broadcast(m, translatedText) ==
    [type |-> "translated-speech", to |-> subs[m.roomCode] \ {m.sock},
     originalText |-> m.text, translatedText |-> translatedText, userId |-> m.sock]

\* A handler that translates for a code the Map does not hold as well.
SpeechDataUnchecked(s, roomCode, text) ==
    /\ status[s] = "live"
    /\ msgs' = Append(msgs,
           [sock |-> s, roomCode |-> roomCode, text |-> text,
            fromLang |-> "Hindi", toLang |-> "English",
            retries |-> 0, pc |-> "await", due |-> 0,
            room |-> rooms[roomCode], attempts |-> 1, waits |-> <<>>])
    /\ emitted' = <<>>
    /\ UNCHANGED <<now, status, currentRoom, subs, heap, rooms, departures,
                   longTimers, janitorDue, delivered, leftCount, rejoined, joinedAs>>

\* socket.on('speech-data'), lines 176-200, up to the first remote call.
\* Of a message record, sock, roomCode, text, fromLang, toLang and retries are
\* the handler's variables, pc and due its position; room (the room object
\* found), attempts (remote calls started) and waits (backoff delays set)
\* record its history.
SpeechData(s, roomCode, text) ==
    /\ status[s] = "live"
    /\ IF rooms[roomCode] = 0
       THEN /\ emitted' = <<[type |-> "error", to |-> {s},
                             message |-> "Room not found"]>>
            /\ UNCHANGED <<heap, msgs>>
       ELSE /\ heap' = [heap EXCEPT ![rooms[roomCode]].lastActivity = now]
            /\ LET l == languages(RoomOf(roomCode).translationDirection)
               IN  msgs' = Append(msgs,
                       [sock |-> s, roomCode |-> roomCode, text |-> text,
                        fromLang |-> l.fromLang, toLang |-> l.toLang,
                        retries |-> 0, pc |-> "await", due |-> 0,
                        room |-> rooms[roomCode], attempts |-> 1,
                        waits |-> <<>>])
            /\ emitted' = <<>>
    /\ UNCHANGED <<now, status, currentRoom, subs, rooms, departures, longTimers,
                   janitorDue, delivered, leftCount, rejoined, joinedAs>>

\* The awaited generateContent call resolves (lines 69-72) and the handler
\* goes on to the broadcast (lines 200-208) in the same turn.
RemoteOk(i, response) ==
    /\ msgs[i].pc = "await"
    /\ msgs' = [msgs EXCEPT ![i].pc = "done"]
    /\ delivered' = Append(delivered, i)
    /\ emitted' = <<broadcast(msgs[i], trim(response))>>
    /\ UNCHANGED <<now, status, currentRoom, subs, heap, rooms, departures,
                   longTimers, janitorDue, leftCount, rejoined, joinedAs>>

\* Giving up one failure later.
exhaustedLate(retries) == retries > maxRetries

\* Line 77.
exhausted(retries) == retries >= maxRetries

\* The awaited call rejects (lines 73-83): after the last attempt the
\* placeholder is returned and broadcast, otherwise the backoff timer is set.
RemoteFail(i, message) ==
    /\ msgs[i].pc = "await"
    /\ LET retries == msgs[i].retries + 1
       IN  IF exhausted(retries)
           THEN /\ msgs' = [msgs EXCEPT ![i].retries = retries, ![i].pc = "done"]
                /\ delivered' = Append(delivered, i)
                /\ emitted' = <<broadcast(msgs[i], unavailable(message))>>
           ELSE /\ msgs' = [msgs EXCEPT ![i].retries = retries,
                                        ![i].pc = "backoff",
                                        ![i].due = now + BackoffBase * retries,
                                        ![i].waits = Append(@, BackoffBase * retries)]
                /\ emitted' = <<>>
                /\ UNCHANGED delivered
    /\ UNCHANGED <<now, status, currentRoom, subs, heap, rooms, departures,
                   longTimers, janitorDue, leftCount, rejoined, joinedAs>>

\* The backoff timer of line 82 fires and the loop makes the next attempt.
Retry(i) ==
    /\ msgs[i].pc = "backoff"
    /\ msgs[i].due <= now
    /\ msgs' = [msgs EXCEPT ![i].pc = "await", ![i].attempts = @ + 1]
    /\ emitted' = <<>>
    /\ UNCHANGED <<now, status, currentRoom, subs, heap, rooms, departures,
                   longTimers, janitorDue, delivered, leftCount, rejoined, joinedAs>>

\* ------------------------------------------------------------ time
\* The times at which a pending timer is due.
Deadlines ==
    {departures[i].due : i \in 1..Len(departures)}
        \cup {longTimers[i].due : i \in 1..Len(longTimers)}
        \cup {msgs[i].due : i \in {j \in 1..Len(msgs) : msgs[j].pc = "backoff"}}
        \cup {janitorDue}

\* Time passes up to the next timer; a timer that is due fires before any later
\* time is reached.  Requests and socket events arrive at any of these times.
Advance ==
    /\ Min(Deadlines) > now
    /\ now' = Min(Deadlines)
    /\ emitted' = <<>>
    /\ UNCHANGED <<status, currentRoom, subs, heap, rooms, departures, longTimers,
                   janitorDue, msgs, delivered, leftCount, rejoined, joinedAs>>

\* ------------------------------------------------------------ specification
\* The bounds of a run are guards of its next-state relation: connections
\* opened, room objects created, messages received, the codes and names in use
\* and the time up to which the clock runs.
Opened == Cardinality({s \in Conns : status[s] # "none"})

\* Names are interchangeable: a joining user gives a name some presence list or
\* pending departure check holds, or the first name of the list that none holds.
NamesHeld ==
    UNION {{heap[r].users[i].name : i \in 1..Len(heap[r].users)} : r \in 1..Len(heap)}
        \cup {departures[i].userName : i \in 1..Len(departures)}

JoinNames(nameList) ==
    {nameList[i] : i \in {j \in 1..Len(nameList) :
        \/ nameList[j] \in NamesHeld
        \/ \A k \in 1..(j - 1) : nameList[k] \in NamesHeld}}

Create(maxRooms, codes) ==
    /\ Len(heap) < maxRooms
    /\ \E code \in codes, direction \in Directions : CreateRoom(code, direction)

\* once: a connection sends join-room only until one join succeeded.
Sessions(maxConns, nameList, codes, once) ==
    \/ /\ Opened < maxConns
       /\ Connect
    \/ \E s \in Conns, code \in codes, userName \in JoinNames(nameList) :
          /\ once => currentRoom[s] = NoRoom
          /\ JoinRoom(s, code, userName)
    \/ \E s \in Conns : Disconnect(s)

Requests(codes) ==
    \/ \E code \in codes : CheckRoom(code)
    \/ \E s \in Conns, code \in codes : Heartbeat(s, code)

Speech(maxMsgs, codes) ==
    \/ /\ Len(msgs) < maxMsgs
       /\ \E s \in Conns, code \in codes, text \in Texts : SpeechData(s, code, text)
    \/ \E i \in 1..Len(msgs) :
          \E response \in Responses(msgs[i].text, msgs[i].fromLang, msgs[i].toLang) :
             RemoteOk(i, response)
    \/ \E i \in 1..Len(msgs), message \in Errors : RemoteFail(i, message)
    \/ \E i \in 1..Len(msgs) : Retry(i)

Clock(horizon) ==
    /\ Min(Deadlines) <= horizon
    /\ Advance

\* The whole server.
Next ==
    \/ Create(MaxRooms, Codes)
    \/ Sessions(MaxConns, SomeNames, Codes, FALSE)
    \/ DepartureCheck
    \/ LongGraceTimer
    \/ Janitor
    \/ Requests(Codes)
    \/ Speech(MaxMsgs, Codes)
    \/ Clock(MaxSweeps * JanitorPeriod)

Spec == Init /\ [][Next]_vars

\* Rooms and presence: two codes, room objects replacing one another, both
\* timers of the disconnect handler; the clock stops short of the first cleanup.
NextLobby ==
    \/ Create(LobbyRooms, Codes)
    \/ Sessions(MaxConns, SomeNames, Codes, FALSE)
    \/ DepartureCheck
    \/ LongGraceTimer
    \/ \E code \in Codes : CheckRoom(code)
    \/ Clock(JanitorPeriod - 1)

SpecLobby == Init /\ [][NextLobby]_vars

\* One room with up to CrowdConns members, each joining once, and the
\* departure checks of those who disconnect at time 0.
NextCrowd ==
    \/ Create(1, {"100000"})
    \/ Sessions(CrowdConns, ManyNames, {"100000"}, TRUE)
    \/ DepartureCheck
    \/ Clock(ShortGrace)

SpecCrowd == Init /\ [][NextCrowd]_vars

\* The speech path: one room, its members, TalkMsgs messages addressed to
\* either code and the backoff timers of a message received at time 0.
NextTalk ==
    \/ Create(1, {"100000"})
    \/ Sessions(MaxConns, SomeNames, {"100000"}, TRUE)
    \/ Speech(TalkMsgs, Codes)
    \/ Clock(BackoffBase * 1 + BackoffBase * 2)

SpecTalk == Init /\ [][NextTalk]_vars

\* The cleanup interval over Sweeps periods: two codes, the members of one
\* room and their heartbeats, both timers of the disconnect handler.  A timer
\* that is due fires, and time passes up to the horizon.
NextSweep ==
    \/ Create(LobbyRooms, Codes)
    \/ Sessions(MaxConns, SomeNames, {"100000"}, TRUE)
    \/ DepartureCheck
    \/ LongGraceTimer
    \/ Janitor
    \/ \E s \in Conns : Heartbeat(s, "100000")
    \/ Clock(Sweeps * JanitorPeriod)

SpecSweep ==
    /\ Init /\ [][NextSweep]_vars
    /\ WF_vars(DepartureCheck)
    /\ WF_vars(LongGraceTimer)
    /\ WF_vars(Janitor)
    /\ WF_vars(Clock(Sweeps * JanitorPeriod))

\* ------------------------------------------------------------ claims
NamesOf(users) == {users[i].name : i \in 1..Len(users)}

\* C1: the departure check of a user who has not rejoined under the same name
\* emits exactly one user-left naming that user, and afterwards no entry of
\* that name is in the room's users list nor in the list the event carries.
C1_DepartureRemovesUser ==
    [][(DepartureCheck /\ Head(departures).sock \notin rejoined) =>
          LET d == Head(departures)
          IN  /\ leftCount'[d.sock] = 1
              /\ Len(emitted') = 1
              /\ emitted'[1].type = "user-left"
              /\ emitted'[1].userName = d.userName
              /\ d.userName \notin NamesOf(emitted'[1].users)
              /\ d.userName \notin NamesOf(heap'[d.room].users)]_vars

\* C2: the departure check of a user whose name has joined the same room again
\* on another connection emits no user-left and leaves every users list as
\* it was.
C2_RejoinCancelsDeparture ==
    [][(DepartureCheck /\ Head(departures).sock \in rejoined) =>
          /\ \A i \in 1..Len(emitted') : emitted'[i].type # "user-left"
          /\ heap' = heap]_vars

\* No users list of a room object holds two entries of one name.
NoDuplicateNames ==
    \A r \in 1..Len(heap) :
        \A i, j \in 1..Len(heap[r].users) :
            heap[r].users[i].name = heap[r].users[j].name => i = j

\* C3: a join-room under a name that has an entry in the room puts the joining
\* socket's id into that entry and changes nothing else of the list; and in
\* every state no users list holds two entries of one name.
C3_RejoinReplacesEntry ==
    /\ []NoDuplicateNames
    /\ [][(Len(emitted') = 2 /\ emitted'[1].type = "room-joined") =>
            LET s == emitted'[2].userId
                userName == emitted'[2].userName
                before == RoomOf(emitted'[1].roomCode).users
                after == heap'[rooms[emitted'[1].roomCode]].users
            IN  userName \in NamesOf(before) =>
                    /\ Len(after) = Len(before)
                    /\ \A i \in 1..Len(before) :
                          after[i] = IF before[i].name = userName
                                     THEN [id |-> s, name |-> userName]
                                     ELSE before[i]]_vars

\* A join under the name of a pending departure check has just been served.
C3_Witness ==
    /\ Len(emitted) = 2
    /\ emitted[2].type = "user-joined"
    /\ \E i \in 1..Len(departures) :
          /\ departures[i].sock \in rejoined
          /\ departures[i].userName = emitted[2].userName
          /\ departures[i].room = joinedAs[emitted[2].userId].room
          /\ Len(emitted[2].users) = 2

\* C4: when the empty-room timer fires and the room that emptied is still
\* empty, that room is no longer in the Map afterwards and check-room answers
\* exists: false for the code the timer looked up; and a code that is not in
\* the Map gets into it only by a create-room.
C4_EmptyRoomRemoved ==
    /\ [][(LongGraceTimer /\ Len(heap[Head(longTimers).room].users) = 0) =>
            LET t == Head(longTimers)
                cr == currentRoom[t.sock]
            IN  \A c \in Codes :
                    /\ rooms'[c] # t.room
                    /\ (c = cr /\ rooms[c] \in {0, t.room}) => ~(checkRoom(c).exists)']_vars
    /\ [][\A c \in Codes :
            (~checkRoom(c).exists /\ (checkRoom(c).exists)') =>
                /\ emitted'[1].type = "create-room-response"
                /\ emitted'[1].roomCode = c]_vars

\* The only room emptied by a departure check and was removed by the timer.
C4_Witness ==
    /\ Len(heap) = 1
    /\ \A c \in Codes : rooms[c] = 0
    /\ \E s \in Conns : leftCount[s] = 1
    /\ longTimers = <<>>
    /\ now = ShortGrace + LongGrace
    /\ emitted = <<>>

\* A message makes at most 3 remote attempts; after its third failure it has
\* made exactly 3, has waited 1 s and 2 s between them, and is finished; a
\* finished message has been broadcast.
C5_Attempts ==
    \A i \in 1..Len(msgs) :
        /\ msgs[i].attempts <= 3
        /\ msgs[i].retries = 3 =>
              /\ msgs[i].pc = "done"
              /\ msgs[i].attempts = 3
              /\ msgs[i].waits = <<1000, 2000>>
        /\ msgs[i].pc = "done" => \E k \in 1..Len(delivered) : delivered[k] = i

\* C5: a message whose remote calls all fail makes exactly 3 attempts, waits
\* 1 s and 2 s between them and nothing after the third, and the handler then
\* sends one translated-speech with the placeholder for the last failure's
\* message to the other members and nothing to the sender.
C5_PlaceholderAfterThreeFailures ==
    /\ []C5_Attempts
    /\ [][\A i \in 1..Len(msgs) :
            (msgs[i].retries = 2 /\ msgs'[i].retries = 3) =>
                /\ emitted' =
                      <<[type |-> "translated-speech",
                         to |-> subs[msgs[i].roomCode] \ {msgs[i].sock},
                         originalText |-> msgs[i].text,
                         translatedText |-> emitted'[1].translatedText,
                         userId |-> msgs[i].sock]>>
                /\ \E message \in Errors :
                      /\ RemoteFail(i, message)
                      /\ emitted'[1].translatedText =
                            <<"[Translation unavailable: ", message, "]">>]_vars

\* The placeholder has just been broadcast to another member.
C5_Witness ==
    /\ Len(emitted) = 1
    /\ emitted[1].type = "translated-speech"
    /\ emitted[1].to # {}
    /\ emitted[1].translatedText[1] = "[Translation unavailable: "
    /\ msgs[delivered[Len(delivered)]].retries = 3

\* C6: of two messages one connection sent to one room, the earlier one is
\* broadcast first.
C6_SenderOrder ==
    \A k \in 1..Len(delivered) :
        \A i \in 1..(delivered[k] - 1) :
            (/\ msgs[i].sock = msgs[delivered[k]].sock
             /\ msgs[i].roomCode = msgs[delivered[k]].roomCode) =>
                \E j \in 1..(k - 1) : delivered[j] = i

\* C7: two live connections that joined one room under different names, which
\* no other connection has joined it under since, are both named in every
\* users list an event of that room carries.
C7_BothListed ==
    \A s1, s2 \in Conns :
        (/\ s1 # s2
         /\ status[s1] = "live" /\ status[s2] = "live"
         /\ joinedAs[s1].room # 0
         /\ joinedAs[s1].room = joinedAs[s2].room
         /\ joinedAs[s1].name # joinedAs[s2].name) =>
            \A k \in 1..Len(emitted) :
                emitted[k].type \in {"room-joined", "user-joined", "user-left"} =>
                    {joinedAs[s1].name, joinedAs[s2].name} \subseteq NamesOf(emitted[k].users)

\* C8: a translated-speech event is the only event of its step, goes to the
\* sockets of the message's broadcast group other than the sender, carries
\* the sender's text and id, and, when a remote call succeeded, the
\* translation of the text from English to Hindi for a room of direction
\* en-to-hi and from Hindi to English otherwise; no message is broadcast twice.
C8_TranslatedSpeech ==
    /\ \A a, b \in 1..Len(delivered) : delivered[a] = delivered[b] => a = b
    /\ \A k \in 1..Len(emitted) :
          emitted[k].type = "translated-speech" =>
              LET m == msgs[delivered[Len(delivered)]]
                  e == emitted[k]
              IN  /\ Len(emitted) = 1
                  /\ m.pc = "done"
                  /\ e.to = subs[m.roomCode] \ {m.sock}
                  /\ m.sock \notin e.to
                  /\ e.originalText = m.text
                  /\ e.userId = m.sock
                  /\ m.retries < 3 =>
                        e.translatedText =
                            IF heap[m.room].translationDirection = "en-to-hi"
                            THEN <<"English", "->", "Hindi", ":", m.text>>
                            ELSE <<"Hindi", "->", "English", ":", m.text>>

\* A translation from Hindi has just been broadcast to another member.
C8_Witness ==
    /\ Len(emitted) = 1
    /\ emitted[1].type = "translated-speech"
    /\ emitted[1].to # {}
    /\ emitted[1].translatedText = <<"Hindi", "->", "English", ":", "Hello">>

\* C9: a socket id is in at most one presence entry of the rooms of the Map
\* and in at most one broadcast group.
C9_OneRoomPerConnection ==
    \A s \in Conns :
        /\ Cardinality({c \in Codes : s \in subs[c]}) <= 1
        /\ Cardinality(UNION {{<<c, i>> : i \in
                                  {j \in 1..Len(RoomOf(c).users) :
                                      RoomOf(c).users[j].id = s}} :
                              c \in {x \in Codes : rooms[x] # 0}}) <= 1

\* C10: a join-room for a code that is not in the Map sends the error to the
\* joining socket and changes nothing else.
C10_JoinUnknownRoom ==
    [][\A s \in Conns, code \in Codes :
          (/\ rooms[code] = 0
           /\ status[s] = "live"
           /\ \E userName \in Names : JoinRoom(s, code, userName)) =>
              /\ emitted' = <<[type |-> "error", to |-> {s},
                               message |-> "Room not found"]>>
              /\ UNCHANGED <<now, status, currentRoom, subs, heap, rooms,
                             departures, longTimers, janitorDue, msgs, delivered,
                             leftCount, rejoined, joinedAs>>]_vars

\* The error has just been sent to a socket that is in no group and no room.
C10_Witness ==
    /\ Len(emitted) = 1
    /\ emitted[1].type = "error"
    /\ emitted[1].message = "Room not found"
    /\ \E s \in Conns :
          /\ emitted[1].to = {s}
          /\ currentRoom[s] = NoRoom
          /\ \A c \in Codes : s \notin subs[c]
    /\ \E c \in Codes : rooms[c] = 0
\* The room object r is the one some code maps to.
InMap(r) == \E c \in Codes : rooms[c] = r

\* An empty room object whose idle time exceeds the threshold within the horizon.
Abandoned(r) ==
    /\ r <= Len(heap)
    /\ InMap(r)
    /\ Len(heap[r].users) = 0
    /\ heap[r].lastActivity + IdleThreshold < Sweeps * JanitorPeriod

\* C11: a sweep takes out of the Map exactly the rooms that have no user and a
\* lastActivity more than 3600000 ms old, and changes no room object; and an
\* empty room left alone long enough for a sweep within the horizon to find it
\* idle is eventually out of the Map.
C11_JanitorSweep ==
    /\ [][janitorDue' # janitorDue =>
            /\ \A c \in Codes :
                  rooms'[c] = IF /\ rooms[c] # 0
                                /\ Len(heap[rooms[c]].users) = 0
                                /\ now - heap[rooms[c]].lastActivity > 3600000
                             THEN 0
                             ELSE rooms[c]
            /\ heap' = heap
            /\ subs' = subs /\ currentRoom' = currentRoom]_vars
    /\ \A r \in 1..LobbyRooms : Abandoned(r) ~> ~Abandoned(r)

\* The third sweep has removed a room nobody joined and kept a room whose one
\* member joined at time 0.
C11_Witness ==
    /\ now = 3 * JanitorPeriod
    /\ janitorDue > now
    /\ Len(heap) = 2
    /\ \E r \in 1..2 : ~InMap(r) /\ heap[r].emptySince = 0 /\ heap[r].lastActivity = 0
    /\ \E r \in 1..2 : InMap(r) /\ Len(heap[r].users) = 1 /\ heap[r].lastActivity = 0
    /\ longTimers = <<>>
    /\ \A s \in Conns : leftCount[s] = 0

\* C12: a heartbeat from any live socket for a code in the Map sets that
\* room's lastActivity to the current time and sends heartbeat-ack to the
\* caller; for a code not in the Map it sends nothing; in both cases nothing
\* else changes.
C12_HeartbeatFrame ==
    [][\A s \in Conns, code \in Codes :
          (status[s] = "live" /\ Heartbeat(s, code)) =>
              /\ IF rooms[code] # 0
                 THEN /\ emitted' = <<[type |-> "heartbeat-ack", to |-> {s}]>>
                      /\ Len(heap') = Len(heap)
                      /\ \A r \in 1..Len(heap) :
                            /\ heap'[r].users = heap[r].users
                            /\ heap'[r].translationDirection = heap[r].translationDirection
                            /\ heap'[r].lastActivity =
                                  IF r = rooms[code] THEN now ELSE heap[r].lastActivity
                 ELSE /\ emitted' = <<>>
                      /\ heap' = heap
              /\ UNCHANGED <<now, status, currentRoom, subs, rooms, departures,
                             longTimers, janitorDue, msgs, delivered, leftCount,
                             rejoined, joinedAs>>]_vars

\* A socket that joined no room has just been acknowledged, and the room of its
\* heartbeat, which has a member, carries the current time.
C12_Witness ==
    /\ emitted = <<[type |-> "heartbeat-ack", to |-> {2}]>>
    /\ currentRoom[2] = NoRoom
    /\ now > 0
    /\ Len(heap) = 2
    /\ \E r \in 1..2 :
          /\ InMap(r)
          /\ heap[r].lastActivity = now
          /\ Len(heap[r].users) = 1
          /\ heap[r].users[1].id = 1
    /\ \E r \in 1..2 : InMap(r) /\ heap[r].lastActivity < now

\* C13: a departure check removes no entry but that of the socket whose
\* disconnect scheduled it; the entry of a live socket stays in the list.
C13_RemovesOwnEntryOnly ==
    [][DepartureCheck =>
          LET d == Head(departures)
              users == heap[d.room].users
          IN  \A i \in 1..Len(users) :
                  (users[i].id # d.sock /\ status[users[i].id] = "live") =>
                      users[i] \in entries(heap'[d.room].users)]_vars

\* Every connection the run may open is lost: nobody can join a room again.
AllLost == \A s \in 1..MaxConns : status[s] = "gone"

\* C14: once every connection is lost, with the members' departure checks and
\* the empty-room timer still inside the horizon, a room of the Map that has
\* users eventually has none and is out of the Map.
C14_Reclaimed ==
    \A r \in 1..LobbyRooms :
        (AllLost /\ now = 0 /\ r <= Len(heap) /\ InMap(r) /\ Len(heap[r].users) > 0)
            ~> (r <= Len(heap) /\ Len(heap[r].users) = 0 /\ ~InMap(r))

\* C15: a departure check that takes an entry out of a users list leaves the
\* room's lastActivity at the time of the removal.
C15_DepartureTouchesRoom ==
    [][DepartureCheck =>
          LET d == Head(departures)
          IN  Len(heap'[d.room].users) < Len(heap[d.room].users) =>
                  heap'[d.room].lastActivity = now]_vars

\* C16: a step that deletes a code from the Map finds the users list of the
\* room it mapped to empty; so no room with an entry whose departure check is
\* pending is deleted.
C16_DeletedRoomsAreEmpty ==
    [][\A c \in Codes :
          (rooms[c] # 0 /\ rooms'[c] = 0) =>
              /\ Len(heap[rooms[c]].users) = 0
              /\ Len(heap'[rooms[c]].users) = 0
              /\ \A i \in 1..Len(departures) :
                    departures[i].room = rooms[c] =>
                        \A j \in 1..Len(heap[rooms[c]].users) :
                            heap[rooms[c]].users[j].id # departures[i].sock]_vars

\* The empty-room timer has fired on a room that emptied at 20 s and holds,
\* 5 minutes later, the entry of a member who has just disconnected: the room
\* is still in the Map.
C16_Witness ==
    /\ now = ShortGrace + LongGrace
    /\ longTimers = <<>>
    /\ leftCount[1] = 1
    /\ Len(departures) = 1
    /\ departures[1].sock = 2
    /\ departures[1].due = now + ShortGrace
    /\ InMap(departures[1].room)
    /\ heap[departures[1].room].users = <<[id |-> 2, name |-> departures[1].userName]>>

\* C17: the disconnect of a socket whose id is in no entry of the room its
\* currentRoom names (or that has no current room, or whose room is gone)
\* schedules no timer, emits nothing and changes no room and no users list.
C17_DisconnectWithoutEntry ==
    [][\A s \in Conns :
          (/\ status[s] = "live" /\ status'[s] = "gone"
           /\ \/ currentRoom[s] = NoRoom
              \/ rooms[currentRoom[s]] = 0
              \/ \A i \in 1..Len(heap[rooms[currentRoom[s]]].users) :
                    heap[rooms[currentRoom[s]]].users[i].id # s) =>
              /\ departures' = departures
              /\ longTimers' = longTimers
              /\ emitted' = <<>>
              /\ heap' = heap
              /\ rooms' = rooms
              /\ leftCount' = leftCount]_vars

\* Socket 1 joined the only room as asha, socket 2 took the entry over, and
\* socket 1 has disconnected: no check is pending and no user has left.
C17_Witness ==
    /\ status[1] = "gone" /\ status[2] = "live"
    /\ Len(heap) = 1
    /\ currentRoom[1] # NoRoom
    /\ rooms[currentRoom[1]] = 1
    /\ heap[1].users = <<[id |-> 2, name |-> "asha"]>>
    /\ departures = <<>>
    /\ \A s \in Conns : leftCount[s] = 0
    /\ emitted = <<>>

\* C18: a speech-data for a code that is not in the Map sends the error to the
\* sender alone, starts no translation and changes nothing else.
C18_SpeechToUnknownRoom ==
    [][\A s \in Conns, code \in Codes :
          (/\ rooms[code] = 0
           /\ status[s] = "live"
           /\ \E text \in Texts : SpeechData(s, code, text)) =>
              /\ emitted' = <<[type |-> "error", to |-> {s},
                               message |-> "Room not found"]>>
              /\ msgs' = msgs
              /\ delivered' = delivered
              /\ heap' = heap
              /\ rooms' = rooms
              /\ subs' = subs
              /\ UNCHANGED <<now, status, currentRoom, departures, longTimers,
                             janitorDue, leftCount, rejoined, joinedAs>>]_vars

\* A member of room 100000, who sends no join-room after the one that
\* succeeded, has just been told that there is no room, with the other code
\* absent and an earlier message of the room still waiting for its translation.
C18_Witness ==
    /\ emitted = <<[type |-> "error", to |-> {1}, message |-> "Room not found"]>>
    /\ currentRoom[1] = "100000"
    /\ rooms["100000"] = 1
    /\ rooms["100001"] = 0
    /\ heap[1].users = <<[id |-> 1, name |-> "asha"], [id |-> 2, name |-> "ben"]>>
    /\ Len(msgs) = 1
    /\ msgs[1].pc = "await"
    /\ delivered = <<>>

\* C19: a step that deletes a code from the Map finds that the users list of
\* the room it mapped to has been empty without a break for at least 300000 ms.
C19_EmptyForLongGrace ==
    [][\A c \in Codes :
          (rooms[c] # 0 /\ rooms'[c] = 0) =>
              /\ heap[rooms[c]].emptySince # -1
              /\ now - heap[rooms[c]].emptySince >= 300000]_vars

\* C20: a translated-speech that reaches a member of a room comes from a
\* socket that has an entry in that room's users list.
C20_OnlyMembersSpeak ==
    \A k \in 1..Len(emitted) :
        (emitted[k].type = "translated-speech" /\ emitted[k].to # {}) =>
            LET m == msgs[delivered[Len(delivered)]]
            IN  \E i \in 1..Len(heap[m.room].users) :
                    heap[m.room].users[i].id = m.sock
====
